---- MODULE Spec2Model ----
(***************************************************************************)
(* Audioflow for Homey: the device's reconciliation engine                 *)
(* (AudioflowDevice._syncWithHardware and its timer), the device           *)
(* lifecycle (onInit, onDeleted) and the intent dispatcher (flow actions,  *)
(* onSettings), modelled from src/unnamed/part_001 (the device class with  *)
(* the per-model zone count) and src/tools/api-discovery.js (the           *)
(* AudioflowClient appended to that file).                                 *)
(*                                                                         *)
(* The Homey platform is modelled as the key-value store the device code   *)
(* uses it as: a set of capabilities, a value and a title per capability,  *)
(* and the settings.  A platform or transport call that the code guards    *)
(* with catch may fail; its outcome is an input of the action.             *)
(*                                                                         *)
(* An async function is one action per stretch of code between awaits.     *)
(* The zone loop of a pass additionally yields between two iterations,     *)
(* where the code yields only if the iteration awaited: the interleavings  *)
(* of the model include those of the code.                                 *)
(***************************************************************************)
EXTENDS Integers, Sequences, FiniteSets, TLC

(***************************************************************************)
(* Bounds of the model.                                                    *)
(***************************************************************************)
\* passes that may be in flight at once (the code sets no limit)
MaxInFlight == 2
\* changes the hardware makes on its own during a run
MaxHwChanges == 1
\* platform and transport calls of the device's start-up and of its passes
\* that fail during a run
MaxFaults == 1
\* operations the user and the flows start during a run
MaxOps == 1
\* calls made on an AudioflowClient during a run
MaxRequests == 2
\* list_devices invocations of one pairing or repair session
MaxInvocations == 2
\* datagrams delivered to the sockets of one session
MaxMessages == 3
\* keys one settings change carries
MaxKeys == 2

(***************************************************************************)
(* Program constants.                                                      *)
(***************************************************************************)
\* onInit's cleanup loop visits zone_btn_1 .. zone_btn_4
MaxCap == 4

Caps == 1..MaxCap

\* parseInt of an id that does not begin with a number.  NaN is held as a
\* number no zone has: like NaN it is greater than no zone count, and adding
\* 1 to it gives NaN
NaN == 0 - 1000

\* the zone numbers a capability id is built from: those of the four
\* capabilities, and what parseInt(zoneData.id) + 1 gives for the ids -1
\* and NaN
Buttons == Caps \cup {0, NaN}

\* JavaScript values that are compared with !== against booleans
JsBool(b) == IF b THEN "true" ELSE "false"

\* Strings are sequences of characters
Digit(n) == CASE n = 0 -> "0" [] n = 1 -> "1" [] n = 2 -> "2" [] n = 3 -> "3"
              [] n = 4 -> "4" [] n = 5 -> "5" [] n = NaN -> "NaN" [] OTHER -> "?"

\* `Zone ${zoneNum}`
DefaultName(n) == <<"Z", "o", "n", "e", " ", Digit(n)>>

\* zone names the appliance holds; the empty string is "no name"
NoName == <<>>
Den == <<"D", "e", "n">>

\* _getZoneCount(model)
GetZoneCount(model) ==
    IF model = "3S-2Z" THEN 2
    ELSE IF model = "3S-3Z" THEN 3
    ELSE 4

VARIABLES
    store,            \* getStoreValue('model'), getSetting('ip_address') set or not
    zoneCount,        \* this.zoneCount (0 before onInit)
    client,           \* this.client exists
    initPc,           \* where onInit stands
    initI,            \* loop index of onInit's two loops
    pollingInterval,  \* this.pollingInterval holds a live interval
    deleted,          \* onDeleted has run
    mirror,           \* capabilities, their values and titles, the settings
    pass,             \* the invocations of _syncWithHardware, by slot
    emitted,          \* flow triggers fired by the latest step of a pass
    hw,               \* the zones as the appliance holds them
    hwExclusive,      \* the appliance's exclusive flag
    hwChanges,        \* changes the appliance has made on its own
    raised,           \* an error has escaped _syncWithHardware
    logged,           \* the failure this.error('Polling failed:', ...) last logged
    faults,           \* platform and transport calls that have failed
    op,               \* the dispatcher operation started last
    ops,              \* dispatcher operations started so far
    requests,         \* the calls made on an AudioflowClient, with their outcomes
    session,          \* the driver's session: none, pair or repair
    sessionEnded,     \* the session's disconnect handler has run
    currentSerial,    \* device.getStoreValue('serial') of the repaired device
    discoverySocket,  \* let discoverySocket: 0 for null, or an invocation's socket
    foundDevices,     \* const foundDevices, in insertion order
    invocations,      \* the list_devices invocations: socket, promise, timer
    delivered         \* the datagrams delivered to the session's sockets, in order

vars == <<store, zoneCount, client, initPc, initI, pollingInterval, deleted,
          mirror, pass, emitted, hw, hwExclusive, hwChanges, raised, logged,
          faults, op, ops, requests, session, sessionEnded, currentSerial,
          discoverySocket, foundDevices, invocations, delivered>>

opVars == <<op, ops>>
lifeVars == <<store, zoneCount, client, initPc, initI, pollingInterval, deleted>>
sessVars == <<session, sessionEnded, currentSerial, discoverySocket,
              foundDevices, invocations, delivered>>
drvVars == <<requests, sessVars>>
engineVars == <<mirror, pass, emitted, raised, logged, faults>>
devVars == <<lifeVars, opVars, drvVars>>
hwVars == <<hw, hwExclusive, hwChanges>>

(***************************************************************************)
(* The platform store: what hasCapability, getCapabilityValue,             *)
(* getCapabilityOptions and getSetting read.                               *)
(***************************************************************************)
HasCapability(m, n) == n \in m.caps

\* removeCapability: the capability goes, and its value and options with it
RemoveCapability(m, n) ==
    [m EXCEPT !.caps = @ \ {n}, !.value[n] = "null", !.title[n] = NoName]

\* addCapability: the capability appears, with no value and no options yet
AddCapability(m, n) == [m EXCEPT !.caps = @ \cup {n}]

(***************************************************************************)
(* One entry of the zone snapshot, as _syncWithHardware reads it.          *)
(***************************************************************************)
\* parseInt(zoneData.id) + 1; the entry holds parseInt(zoneData.id)
ZoneNum(e) == IF e.id = NaN THEN NaN ELSE e.id + 1

\* zoneData.state === 'on'
IsCurrentlyOn(e) == e.state = "on"

\* zoneData.enabled === 1
IsHardwareEnabled(e) == e.enabled = 1

\* zoneData.name || `Zone ${zoneNum}`
ZoneName(e) == IF e.name = NoName THEN DefaultName(ZoneNum(e)) ELSE e.name

\* GET /zones: entry i carries the 0-based id i - 1, unless the appliance
\* of the model is one that answers with an id of its own
Snapshot(h) ==
    [i \in 1..Len(h) |->
        [id |-> IF "id" \in DOMAIN h[i] THEN h[i].id ELSE i - 1,
         name |-> h[i].name, state |-> h[i].state, enabled |-> h[i].enabled]]

(***************************************************************************)
(* The parts of one iteration of the zone loop.                            *)
(***************************************************************************)
\* a variant of the hide test that spares a zone that is on
MustHideWhenOff(m, e) ==
    ~IsHardwareEnabled(e) /\ HasCapability(m, ZoneNum(e)) /\ ~IsCurrentlyOn(e)

\* if (!isHardwareEnabled && this.hasCapability(capabilityId))
MustHide(m, e) == ~IsHardwareEnabled(e) /\ HasCapability(m, ZoneNum(e))

\* if (isHardwareEnabled && !this.hasCapability(capabilityId))
MustShow(m, e) == IsHardwareEnabled(e) /\ ~HasCapability(m, ZoneNum(e))

\* previousState !== isCurrentlyOn, for a zone that has its capability
StateDiffers(m, e) ==
    /\ HasCapability(m, ZoneNum(e))
    /\ m.value[ZoneNum(e)] # JsBool(IsCurrentlyOn(e))

\* the trigger fired for a state change
TriggerFor(e) ==
    [id |-> IF IsCurrentlyOn(e) THEN "zone_turned_on" ELSE "zone_turned_off",
     zone_name |-> ZoneName(e),
     zone |-> Digit(ZoneNum(e))]

\* the flow triggers of the state sync
SyncEvents(m, e) == IF StateDiffers(m, e) THEN <<TriggerFor(e)>> ELSE <<>>

\* a variant of the state sync that fires the trigger and stores nothing
SyncStateForgets(m, e, valueOk) == m

\* setCapabilityValue(capabilityId, isCurrentlyOn).catch(this.error)
SyncState(m, e, valueOk) ==
    IF StateDiffers(m, e) /\ valueOk
    THEN [m EXCEPT !.value[ZoneNum(e)] = JsBool(IsCurrentlyOn(e))]
    ELSE m

\* !currentOptions || currentOptions.title !== zoneName
NameDiffers(m, e) ==
    /\ HasCapability(m, ZoneNum(e))
    /\ m.title[ZoneNum(e)] # ZoneName(e)

\* await this.setCapabilityOptions(capabilityId, { title: zoneName }), in a try
SyncName(m, e, optionsOk) ==
    IF NameDiffers(m, e) /\ optionsOk
    THEN [m EXCEPT !.title[ZoneNum(e)] = ZoneName(e)]
    ELSE m

\* this.getSetting(settingId) !== isHardwareEnabled
CheckboxDiffers(m, e) == m.enabled[ZoneNum(e)] # IsHardwareEnabled(e)

\* Sync Checkbox Setting: setSettings({ [settingId]: isHardwareEnabled }).catch
SyncCheckbox(m, e, settingsOk) ==
    IF CheckboxDiffers(m, e) /\ settingsOk
    THEN [m EXCEPT !.enabled[ZoneNum(e)] = IsHardwareEnabled(e)]
    ELSE m

\* typeof switchData.exclusive !== 'undefined', and the setting differs
ExclusiveDiffers(m, sw) == sw # "undefined" /\ m.exclusive # (sw = "true")

\* Sync Exclusive Mode, from the switch metadata sw
SyncExclusive(m, sw, settingsOk) ==
    IF ExclusiveDiffers(m, sw) /\ settingsOk
    THEN [m EXCEPT !.exclusive = (sw = "true")]
    ELSE m

(***************************************************************************)
(* The invocations of _syncWithHardware.  A slot holds one invocation:     *)
(* where it stands (pc), the snapshot entries it has still to visit        *)
(* (todo), the switch metadata (sw), whether onInit awaits it (eager), and *)
(* the mirror as it was when the invocation began (before).                *)
(***************************************************************************)
Slots == 1..MaxInFlight

\* n calls of the step fail
B(x) == IF x THEN 1 ELSE 0
Fault(n) == faults + n <= MaxFaults /\ faults' = faults + n

EmptyMirror ==
    [caps |-> {}, value |-> [n \in Buttons |-> "null"],
     title |-> [n \in Buttons |-> NoName], enabled |-> [n \in Buttons |-> FALSE],
     exclusive |-> FALSE]

IdlePass ==
    [pc |-> "idle", todo |-> <<>>, sw |-> "undefined", eager |-> FALSE,
     before |-> EmptyMirror]

InFlight == {p \in Slots : pass[p].pc # "idle"}

FreeSlots == Slots \ InFlight

\* the slot a new invocation takes: the lowest free one
NextSlot == CHOOSE p \in FreeSlots : \A q \in FreeSlots : p <= q

\* this._syncWithHardware() is called: it runs up to its first await
BeginPass(p, eager, m) ==
    pass' = [pass EXCEPT ![p] =
                [pc |-> "getZones", todo |-> <<>>, sw |-> "undefined",
                 eager |-> eager, before |-> m]]

\* a variant of the catch block that logs the error and throws it again
CatchRethrows(p, message) ==
    /\ pass' = [pass EXCEPT ![p] = IdlePass]
    /\ logged' = message
    /\ raised' = TRUE

\* catch (err) { this.error('Polling failed:', err.message) }
CatchPollingFailed(p, message) ==
    /\ pass' = [pass EXCEPT ![p] = IdlePass]
    /\ logged' = message
    /\ UNCHANGED raised

\* the loop moves to the next entry, or leaves for the exclusive-mode sync
Advance(p) ==
    pass' = [pass EXCEPT ![p].todo = Tail(@),
                         ![p].pc = IF Tail(pass[p].todo) = <<>>
                                   THEN "finish" ELSE "zone"]

\* const data = await this.client.getZones(), resolved
GetZonesOk(p) ==
    /\ pass[p].pc = "getZones"
    /\ pass' = [pass EXCEPT ![p].pc = "getSwitch", ![p].todo = Snapshot(hw)]
    /\ emitted' = <<>>
    /\ UNCHANGED <<devVars, hwVars, mirror, raised, logged, faults>>

\* const data = await this.client.getZones(), rejected
GetZonesFail(p) ==
    /\ pass[p].pc = "getZones"
    /\ Fault(1)
    /\ CatchPollingFailed(p, "getZones")
    /\ emitted' = <<>>
    /\ UNCHANGED <<devVars, hwVars, mirror>>

\* a variant without the inner try: a rejected getSwitch ends the invocation
GetSwitchAborts(p, ok) ==
    /\ pass[p].pc = "getSwitch"
    /\ Fault(B(~ok))
    /\ IF ok
       THEN /\ pass' = [pass EXCEPT
                          ![p].sw = hwExclusive,
                          ![p].pc = IF pass[p].todo = <<>> THEN "finish" ELSE "zone"]
            /\ UNCHANGED <<raised, logged>>
       ELSE CatchPollingFailed(p, "getSwitch")
    /\ emitted' = <<>>
    /\ UNCHANGED <<devVars, hwVars, mirror>>

\* try { switchData = await this.client.getSwitch() } catch (err) { }
GetSwitch(p, ok) ==
    /\ pass[p].pc = "getSwitch"
    /\ Fault(B(~ok))
    /\ pass' = [pass EXCEPT
                  ![p].sw = IF ok THEN hwExclusive ELSE "undefined",
                  ![p].pc = IF pass[p].todo = <<>> THEN "finish" ELSE "zone"]
    /\ emitted' = <<>>
    /\ UNCHANGED <<devVars, hwVars, mirror, raised, logged>>

\* state and name sync of the entry e, from the mirror m the step has reached
SyncVisible(p, m, e, valueOk, optionsOk, settingsOk) ==
    LET m1 == SyncState(m, e, valueOk) IN
    /\ Fault(B(StateDiffers(m, e) /\ ~valueOk)
             + (IF NameDiffers(m1, e) THEN B(~optionsOk)
                ELSE B(CheckboxDiffers(m1, e) /\ ~settingsOk)))
    /\ emitted' = SyncEvents(m, e)
    /\ IF NameDiffers(m1, e)
       THEN /\ mirror' = SyncName(m1, e, optionsOk)
            /\ pass' = [pass EXCEPT ![p].pc = "checkbox"]
       ELSE /\ mirror' = SyncCheckbox(m1, e, settingsOk)
            /\ Advance(p)
    /\ UNCHANGED <<raised, logged>>

\* a variant of the skip test that compares with the four capabilities
BeyondCapabilities(e) == ZoneNum(e) > MaxCap

\* if (zoneNum > this.zoneCount) continue
BeyondZoneCount(e) == ZoneNum(e) > zoneCount

\* one iteration of for (const zoneData of zones), up to its first await
ZoneStep(p, capOk, valueOk, optionsOk, settingsOk) ==
    /\ pass[p].pc = "zone"
    /\ LET e == Head(pass[p].todo) IN
       IF BeyondZoneCount(e)
       THEN /\ Advance(p)
            /\ emitted' = <<>>
            /\ UNCHANGED <<mirror, raised, logged, faults>>
       ELSE IF MustHide(mirror, e)
       THEN /\ emitted' = <<>>
            /\ Fault(B(~capOk))
            /\ IF capOk
               THEN /\ mirror' = RemoveCapability(mirror, ZoneNum(e))
                    /\ Advance(p)
                    /\ UNCHANGED <<raised, logged>>
               ELSE /\ CatchPollingFailed(p, "removeCapability")
                    /\ UNCHANGED mirror
       ELSE IF MustShow(mirror, e)
       THEN /\ emitted' = <<>>
            /\ Fault(B(~capOk))
            /\ IF capOk
               THEN /\ mirror' = AddCapability(mirror, ZoneNum(e))
                    /\ pass' = [pass EXCEPT ![p].pc = "sync"]
                    /\ UNCHANGED <<raised, logged>>
               ELSE /\ CatchPollingFailed(p, "addCapability")
                    /\ UNCHANGED mirror
       ELSE SyncVisible(p, mirror, e, valueOk, optionsOk, settingsOk)
    /\ UNCHANGED <<devVars, hwVars>>

\* the iteration resumes after await this.addCapability(capabilityId)
SyncStep(p, valueOk, optionsOk, settingsOk) ==
    /\ pass[p].pc = "sync"
    /\ SyncVisible(p, mirror, Head(pass[p].todo), valueOk, optionsOk, settingsOk)
    /\ UNCHANGED <<devVars, hwVars>>

\* the iteration resumes after the awaits of the name update
CheckboxStep(p, settingsOk) ==
    /\ pass[p].pc = "checkbox"
    /\ Fault(B(CheckboxDiffers(mirror, Head(pass[p].todo)) /\ ~settingsOk))
    /\ mirror' = SyncCheckbox(mirror, Head(pass[p].todo), settingsOk)
    /\ Advance(p)
    /\ emitted' = <<>>
    /\ UNCHANGED <<devVars, hwVars, raised, logged>>

\* after the loop: Sync Exclusive Mode, and the invocation returns
FinishStep(p, settingsOk) ==
    /\ pass[p].pc = "finish"
    /\ Fault(B(ExclusiveDiffers(mirror, pass[p].sw) /\ ~settingsOk))
    /\ mirror' = SyncExclusive(mirror, pass[p].sw, settingsOk)
    /\ pass' = [pass EXCEPT ![p] = IdlePass]
    /\ emitted' = <<>>
    /\ UNCHANGED <<devVars, hwVars, raised, logged>>

(***************************************************************************)
(* The device lifecycle.                                                   *)
(***************************************************************************)
\* onInit has registered its listeners and has reached the eager sync
Initialised == initPc \in {"eager", "ready"}

\* onInit up to the cleanup loop
OnInitStart ==
    /\ initPc = "new"
    /\ zoneCount' = GetZoneCount(store.model)
    /\ IF ~store.ip
       THEN /\ initPc' = "unavailable"
            /\ UNCHANGED <<client, initI>>
       ELSE /\ client' = TRUE
            /\ initPc' = "cleanup"
            /\ initI' = 1
    /\ UNCHANGED <<drvVars, opVars, store, pollingInterval, deleted, mirror, pass,
                   emitted, hwVars, raised, logged, faults>>

\* 1. Clean up excessive capabilities: one iteration
OnInitCleanup(ok) ==
    /\ initPc = "cleanup"
    /\ Fault(B(initI > zoneCount /\ HasCapability(mirror, initI) /\ ~ok))
    /\ mirror' = IF initI > zoneCount /\ HasCapability(mirror, initI) /\ ok
                 THEN RemoveCapability(mirror, initI)
                 ELSE mirror
    /\ IF initI < MaxCap
       THEN initI' = initI + 1 /\ UNCHANGED initPc
       ELSE initI' = 1 /\ initPc' = "register"
    /\ UNCHANGED <<drvVars, opVars, store, zoneCount, client, pollingInterval, deleted, pass,
                   emitted, hwVars, raised, logged>>

\* 2. Register listeners for the valid zones: one iteration; after the last
\* one the flow cards are registered and the eager sync is called
OnInitRegister(ok) ==
    /\ initPc = "register"
    /\ Fault(B(~HasCapability(mirror, initI) /\ ~ok))
    /\ mirror' = IF ~HasCapability(mirror, initI) /\ ok
                 THEN AddCapability(mirror, initI)
                 ELSE mirror
    /\ IF initI < zoneCount
       THEN /\ initI' = initI + 1
            /\ UNCHANGED <<initPc, pass>>
       ELSE /\ initI' = 1
            /\ initPc' = "eager"
            /\ BeginPass(NextSlot, TRUE, mirror')
    /\ UNCHANGED <<drvVars, opVars, store, zoneCount, client, pollingInterval, deleted,
                   emitted, hwVars, raised, logged>>

\* _startPolling(intervalSeconds)
StartPolling == pollingInterval' = TRUE

\* await this._syncWithHardware() has returned: this._startPolling(5)
OnInitStartPolling ==
    /\ initPc = "eager"
    /\ \A p \in Slots : ~pass[p].eager
    /\ StartPolling
    /\ initPc' = "ready"
    /\ UNCHANGED <<drvVars, opVars, store, zoneCount, client, initI, deleted, mirror, pass,
                   emitted, hwVars, raised, logged, faults>>

\* onDeleted
OnDeleted ==
    /\ initPc # "new"
    /\ ~deleted
    /\ deleted' = TRUE
    /\ pollingInterval' = FALSE
    /\ UNCHANGED <<drvVars, opVars, store, zoneCount, client, initPc, initI, mirror, pass,
                   emitted, hwVars, raised, logged, faults>>

\* the interval can fire, and the model has a slot for the invocation
TickEnabled == pollingInterval /\ FreeSlots # {}

\* setInterval(() => this._syncWithHardware(), ...) fires
Tick ==
    /\ TickEnabled
    /\ BeginPass(NextSlot, FALSE, mirror)
    /\ UNCHANGED <<devVars, hwVars, mirror, emitted, raised, logged, faults>>

(***************************************************************************)
(* The appliance.  A zone is switched at the appliance itself, without the *)
(* device code taking part.                                                *)
(***************************************************************************)
HwChange ==
    /\ hwChanges < MaxHwChanges
    /\ hwChanges' = hwChanges + 1
    /\ \E i \in 1..Len(hw) :
          hw' = [hw EXCEPT ![i].state = IF @ = "on" THEN "off" ELSE "on"]
    /\ UNCHANGED <<devVars, hwExclusive, mirror, pass, emitted, raised, logged,
                   faults>>

(***************************************************************************)
(* The AudioflowClient: the request each method sends, and what the        *)
(* appliance does with a request it has answered.                          *)
(***************************************************************************)
Min(a, b) == IF a <= b THEN a ELSE b

\* a variant of substring that takes its end index as inclusive
SubstringInclusive(s, from, to) == SubSeq(s, from + 1, Min(to + 1, Len(s)))

\* name.substring(from, to)
Substring(s, from, to) == SubSeq(s, from + 1, Min(to, Len(s)))

\* _request('PUT', path + n, body)
Put(path, n, body) == [method |-> "PUT", path |-> path, n |-> n, body |-> body]

\* setZoneState(homeyZoneNum, state)
SetZoneStateCall(homeyZoneNum, state) ==
    Put("/zones/", homeyZoneNum, <<IF state THEN "1" ELSE "0">>)

\* setZoneName(zoneNumber, name, enabled)
SetZoneNameCall(zoneNumber, name, enabled) ==
    Put("/zonename/", zoneNumber,
        <<IF enabled THEN "1" ELSE "0">> \o Substring(name, 0, 15))

\* setExclusiveMode(mode)
SetExclusiveModeCall(mode) == Put("/exclusive", 0, <<mode>>)

\* the zones of the appliance after it has served the request
HwAnswer(h, call) ==
    IF call.n \notin 1..Len(h) THEN h
    ELSE IF call.path = "/zones/"
    THEN [h EXCEPT ![call.n].state = IF call.body = <<"1">> THEN "on" ELSE "off"]
    ELSE IF call.path = "/zonename/"
    THEN [h EXCEPT ![call.n].enabled = IF Head(call.body) = "1" THEN 1 ELSE 0,
                   ![call.n].name = Tail(call.body)]
    ELSE h

\* the exclusive flag of the appliance after it has served the request
HwExclusiveAnswer(x, call) ==
    IF call.path = "/exclusive"
    THEN (IF call.body = <<"enable">> THEN "true" ELSE "false")
    ELSE x

(***************************************************************************)
(* The intent dispatcher: the capability listener, the flow actions and    *)
(* onSettings.  op is the operation started last: its kind, where it       *)
(* stands (pc), its zone argument, its loop index (i), the changedKeys it  *)
(* was given (changed) and has still to visit (keys), its newSettings      *)
(* (new), the transport calls it has issued (calls), the indices of those  *)
(* that failed (failed), and what it returned or threw (result).           *)
(***************************************************************************)
\* parseInt of a string of one digit
ParseInt(s) == CHOOSE n \in 0..5 : Digit(n) = s

\* the zone arguments of the flow cards; the last one is out of range for
\* every model
ZoneArgs == {Digit(n) : n \in 1..MaxCap + 1}

\* the keys of the settings: 'enabled_zone' + N, and 'exclusive_mode'
EnabledKey(n) == [prefix |-> "enabled_zone", suffix |-> Digit(n)]
ExclusiveKey == [prefix |-> "exclusive_mode", suffix |-> ""]
SettingKeys == {EnabledKey(n) : n \in Caps} \cup {ExclusiveKey}

\* the changedKeys of a settings change: distinct keys
ChangedKeys ==
    {ks \in UNION {[1..len -> SettingKeys] : len \in 1..MaxKeys} :
        \A a, b \in 1..Len(ks) : a # b => ks[a] # ks[b]}

Changed(changedKeys, key) == \E k \in 1..Len(changedKeys) : changedKeys[k] = key

\* newSettings: the settings, with the changed ones flipped
NewSettings(m, changedKeys) ==
    [enabled |-> [n \in Caps |-> IF Changed(changedKeys, EnabledKey(n))
                                 THEN ~m.enabled[n] ELSE m.enabled[n]],
     exclusive |-> IF Changed(changedKeys, ExclusiveKey)
                   THEN ~m.exclusive ELSE m.exclusive]

NoSettings == [enabled |-> [n \in Caps |-> FALSE], exclusive |-> FALSE]

\* an operation of the given kind that has issued nothing
NewOp(kind) ==
    [kind |-> kind, pc |-> "done", zone |-> "", i |-> 0, changed |-> <<>>,
     keys |-> <<>>, new |-> NoSettings, calls |-> <<>>, failed |-> {},
     result |-> "none"]

IdleOp == [NewOp("none") EXCEPT !.pc = "idle"]

\* new Error('Zone not available on this device')
InvalidZone == "Zone not available on this device"

\* a listener can be called: onInit has registered it
CanDispatch == Initialised /\ op.pc # "run" /\ ops < MaxOps

\* the capability listener of zone_btn_i: the user toggles zone i; the
\* platform may keep the value the user has set once the listener resolved
CapabilityListener(i, value, ok, kept) ==
    /\ CanDispatch
    /\ i \in 1..zoneCount
    /\ HasCapability(mirror, i)
    /\ ops' = ops + 1
    /\ hw' = IF ok THEN HwAnswer(hw, SetZoneStateCall(i, value)) ELSE hw
    /\ mirror' = IF ok /\ kept
                 THEN [mirror EXCEPT !.value[i] = JsBool(value)]
                 ELSE mirror
    /\ UNCHANGED <<drvVars, lifeVars, op, hwExclusive, hwChanges, pass, emitted, raised,
                   logged, faults>>

\* the run listeners of turn_zone_on and turn_zone_off
TurnZone(kind, zone, ok) ==
    /\ CanDispatch
    /\ ops' = ops + 1
    /\ LET zoneNum == ParseInt(zone)
           call == SetZoneStateCall(zoneNum, kind = "turn_zone_on")
       IN  IF zoneNum > zoneCount
           THEN /\ op' = [NewOp(kind) EXCEPT !.zone = zone, !.result = InvalidZone]
                /\ UNCHANGED hw
           ELSE /\ op' = [NewOp(kind) EXCEPT
                            !.zone = zone, !.calls = <<call>>,
                            !.failed = IF ok THEN {} ELSE {1},
                            !.result = IF ok THEN "resolved"
                                       ELSE "HTTP request failed"]
                /\ hw' = IF ok THEN HwAnswer(hw, call) ELSE hw
    /\ UNCHANGED <<drvVars, lifeVars, hwExclusive, hwChanges, mirror, pass, emitted,
                   raised, logged, faults>>

\* a variant of the loop without its try: a failed write ends the operation
AfterWriteThrows(o, ok) ==
    IF ~ok
    THEN [o EXCEPT !.failed = @ \cup {o.i}, !.pc = "done",
                   !.result = "HTTP request failed"]
    ELSE IF o.i + 1 <= zoneCount
    THEN [o EXCEPT !.i = @ + 1,
                   !.calls = Append(@, SetZoneStateCall(o.i + 1, FALSE))]
    ELSE [o EXCEPT !.i = @ + 1, !.pc = "done", !.result = "true"]

\* the listener of turn_all_zones_off, after the write to zone o.i was
\* answered: a failure is caught and logged, and the loop goes on
AfterWrite(o, ok) ==
    LET failed == IF ok THEN o.failed ELSE o.failed \cup {o.i} IN
    IF o.i + 1 <= zoneCount
    THEN [o EXCEPT !.i = @ + 1, !.failed = failed,
                   !.calls = Append(@, SetZoneStateCall(o.i + 1, FALSE))]
    ELSE [o EXCEPT !.i = @ + 1, !.failed = failed, !.pc = "done",
                   !.result = "true"]

\* the run listener of turn_all_zones_off, up to its first await
TurnAllZonesOff ==
    /\ CanDispatch
    /\ ops' = ops + 1
    \* for (let i = 1; ...): the loop is entered as it is continued
    /\ op' = AfterWrite([NewOp("turn_all_zones_off") EXCEPT !.pc = "run"], TRUE)
    /\ UNCHANGED <<drvVars, lifeVars, hwVars, mirror, pass, emitted, raised, logged,
                   faults>>

\* await this.client.setZoneState(i, false) is answered
TurnAllZonesOffStep(ok) ==
    /\ op.kind = "turn_all_zones_off"
    /\ op.pc = "run"
    /\ hw' = IF ok THEN HwAnswer(hw, op.calls[Len(op.calls)]) ELSE hw
    /\ op' = AfterWrite(op, ok)
    /\ UNCHANGED <<drvVars, lifeVars, ops, hwExclusive, hwChanges, mirror, pass, emitted,
                   raised, logged, faults>>

\* the iteration of onSettings for the key issues a transport call: it is not
\* left by if (zoneNum > this.zoneCount) continue
MakesCall(key) ==
    \/ key.prefix = "exclusive_mode"
    \/ key.prefix = "enabled_zone" /\ ~(ParseInt(key.suffix) > zoneCount)

\* the keys from the first one that issues a call
RECURSIVE SkipKeys(_)
SkipKeys(keys) ==
    IF keys = <<>> \/ MakesCall(Head(keys)) THEN keys ELSE SkipKeys(Tail(keys))

\* let currentName = `Zone ${zoneNum}`, or the title of the capability
CurrentName(m, zoneNum) ==
    IF HasCapability(m, zoneNum) /\ m.title[zoneNum] # NoName
    THEN m.title[zoneNum]
    ELSE DefaultName(zoneNum)

\* the transport call of the iteration for the key
CallFor(m, key, new) ==
    IF key.prefix = "enabled_zone"
    THEN LET zoneNum == ParseInt(key.suffix)
         IN  SetZoneNameCall(zoneNum, CurrentName(m, zoneNum), new.enabled[zoneNum])
    ELSE SetExclusiveModeCall(IF new.exclusive THEN "enable" ELSE "disable")

\* for (const key of changedKeys), from the given keys up to the next await
\* or to the end of the loop
Continue(o, m, keys) ==
    LET rest == SkipKeys(keys) IN
    IF rest = <<>>
    THEN [o EXCEPT !.pc = "done", !.keys = <<>>, !.result = "resolved"]
    ELSE [o EXCEPT !.pc = "run", !.keys = rest,
                   !.calls = Append(@, CallFor(m, Head(rest), o.new))]

\* a variant of the catch block that swallows the error
RejectedSwallowed(o) ==
    [o EXCEPT !.pc = "done", !.failed = {Len(o.calls)}, !.result = "resolved"]

\* the iteration's catch block: the error onSettings throws
Rejected(o) ==
    [o EXCEPT !.pc = "done", !.failed = {Len(o.calls)},
              !.result = IF Head(o.keys).prefix = "enabled_zone"
                         THEN "Hardware update failed"
                         ELSE "Failed to set exclusive mode"]

\* a variant in which a zone whose setting is now off is hidden at once
StoreSettingsAndHide(m, o) ==
    IF o.pc = "done" /\ o.result = "resolved"
    THEN [m EXCEPT
            !.enabled = [n \in Buttons |-> IF Changed(o.changed, EnabledKey(n))
                                        THEN o.new.enabled[n] ELSE @[n]],
            !.exclusive = IF Changed(o.changed, ExclusiveKey)
                          THEN o.new.exclusive ELSE @,
            !.caps = {n \in @ : ~Changed(o.changed, EnabledKey(n))
                                   \/ o.new.enabled[n]}]
    ELSE m

\* the platform keeps newSettings once onSettings has resolved
StoreSettings(m, o) ==
    IF o.pc = "done" /\ o.result = "resolved"
    THEN [m EXCEPT
            !.enabled = [n \in Buttons |-> IF Changed(o.changed, EnabledKey(n))
                                        THEN o.new.enabled[n] ELSE @[n]],
            !.exclusive = IF Changed(o.changed, ExclusiveKey)
                          THEN o.new.exclusive ELSE @]
    ELSE m

\* onSettings({ newSettings, changedKeys }), up to its first await
OnSettings(changedKeys) ==
    /\ CanDispatch
    /\ ops' = ops + 1
    /\ op' = Continue([NewOp("onSettings") EXCEPT
                          !.changed = changedKeys,
                          !.new = NewSettings(mirror, changedKeys)],
                      mirror, changedKeys)
    /\ mirror' = StoreSettings(mirror, op')
    /\ UNCHANGED <<drvVars, lifeVars, hwVars, pass, emitted, raised, logged, faults>>

\* the await of setZoneName or of setExclusiveMode is answered
OnSettingsStep(ok) ==
    /\ op.kind = "onSettings"
    /\ op.pc = "run"
    /\ LET call == op.calls[Len(op.calls)] IN
       /\ hw' = IF ok THEN HwAnswer(hw, call) ELSE hw
       /\ hwExclusive' = IF ok THEN HwExclusiveAnswer(hwExclusive, call)
                         ELSE hwExclusive
    /\ op' = IF ok THEN Continue(op, mirror, Tail(op.keys)) ELSE Rejected(op)
    /\ mirror' = StoreSettings(mirror, op')
    /\ UNCHANGED <<drvVars, lifeVars, ops, hwChanges, pass, emitted, raised, logged,
                   faults>>

(***************************************************************************)
(* The device as the platform constructs it, before onInit.                *)
(***************************************************************************)
Models == {"3S-2Z", "3S-3Z", "3S-4Z"}

\* a device as pairing leaves it: no values, no titles yet, every zone
\* setting at its default, and no setting for a zone number that is none
FreshMirror(caps) ==
    [caps |-> caps, value |-> [n \in Buttons |-> "null"],
     title |-> [n \in Buttons |-> NoName], enabled |-> [n \in Buttons |-> n \in Caps],
     exclusive |-> FALSE]

Zone(state, enabled, name) ==
    [name |-> name, state |-> state, enabled |-> enabled]

\* the appliances of the model: two zones, the second disabled; three zones,
\* the first disabled while it is on and has a name
HwTwo == <<Zone("on", 1, Den), Zone("off", 0, NoName)>>
HwThree == <<Zone("on", 0, Den), Zone("on", 1, NoName), Zone("on", 1, Den)>>

\* a zone whose entry carries the id the appliance gives it
ZoneWithId(id, state, enabled, name) ==
    [id |-> id, name |-> name, state |-> state, enabled |-> enabled]

\* an appliance whose answer holds, besides zone 1, an entry with the id -1
\* and an entry with an id that is no number
HwOdd ==
    <<ZoneWithId(0 - 1, "on", 1, Den), ZoneWithId(0, "on", 1, NoName),
      ZoneWithId(NaN, "off", 1, NoName)>>

InitDevice(stores, mirrors, appliances, flags) ==
    /\ store \in stores
    /\ zoneCount = 0
    /\ client = FALSE
    /\ initPc = "new"
    /\ initI = 1
    /\ pollingInterval = FALSE
    /\ deleted = FALSE
    /\ mirror \in mirrors
    /\ pass = [p \in Slots |-> IdlePass]
    /\ emitted = <<>>
    /\ hw \in appliances
    /\ hwExclusive \in flags
    /\ hwChanges = 0
    /\ raised = FALSE
    /\ logged = "none"
    /\ faults = 0
    /\ op = IdleOp
    /\ ops = 0
    /\ requests = <<>>
    /\ session = "none"
    /\ sessionEnded = FALSE
    /\ currentSerial = <<>>
    /\ discoverySocket = 0
    /\ foundDevices = <<>>
    /\ invocations = <<>>
    /\ delivered = <<>>

Init ==
    InitDevice([model : Models, ip : BOOLEAN],
               {FreshMirror(Caps), FreshMirror({3})},
               {HwTwo, HwThree},
               {"true", "undefined"})

PassStep(p) ==
    \/ GetZonesOk(p)
    \/ GetZonesFail(p)
    \/ \E ok \in BOOLEAN : GetSwitch(p, ok)
    \/ \E capOk, valueOk, optionsOk, settingsOk \in BOOLEAN :
          ZoneStep(p, capOk, valueOk, optionsOk, settingsOk)
    \/ \E valueOk, optionsOk, settingsOk \in BOOLEAN :
          SyncStep(p, valueOk, optionsOk, settingsOk)
    \/ \E settingsOk \in BOOLEAN : CheckboxStep(p, settingsOk)
    \/ \E settingsOk \in BOOLEAN : FinishStep(p, settingsOk)

Next ==
    \/ OnInitStart
    \/ \E ok \in BOOLEAN : OnInitCleanup(ok)
    \/ \E ok \in BOOLEAN : OnInitRegister(ok)
    \/ OnInitStartPolling
    \/ OnDeleted
    \/ Tick
    \/ \E p \in Slots : PassStep(p)

Spec == Init /\ [][Next]_vars

(***************************************************************************)
(* The dispatcher on a device that has started: the operations of the user *)
(* and of the flows, after onInit has registered the listeners.            *)
(***************************************************************************)
NextDispatch ==
    \/ OnInitStart
    \/ \E ok \in BOOLEAN : OnInitCleanup(ok)
    \/ \E ok \in BOOLEAN : OnInitRegister(ok)
    \/ \E i \in Caps, value, ok, kept \in BOOLEAN :
          CapabilityListener(i, value, ok, kept)
    \/ \E kind \in {"turn_zone_on", "turn_zone_off"}, zone \in ZoneArgs,
          ok \in BOOLEAN : TurnZone(kind, zone, ok)
    \/ TurnAllZonesOff
    \/ \E ok \in BOOLEAN : TurnAllZonesOffStep(ok)
    \/ \E changedKeys \in ChangedKeys : OnSettings(changedKeys)
    \/ \E ok \in BOOLEAN : OnSettingsStep(ok)

SpecDispatch == Init /\ [][NextDispatch]_vars

(***************************************************************************)
(* The polling device with its user and its appliance: a configured device *)
(* starts, the timer fires, the user toggles zones and zones are switched  *)
(* at the appliance.  The platform runs every continuation that is ready   *)
(* and fires the timer whenever it is due.                                 *)
(***************************************************************************)
InitLive ==
    InitDevice([model : {"3S-2Z"}, ip : {TRUE}],
               {FreshMirror({3})},
               {HwTwo},
               {"undefined"})

OnInitStep ==
    \/ OnInitStart
    \/ \E ok \in BOOLEAN : OnInitCleanup(ok)
    \/ \E ok \in BOOLEAN : OnInitRegister(ok)
    \/ OnInitStartPolling

NextLive ==
    \/ OnInitStep
    \/ Tick
    \/ \E p \in Slots : PassStep(p)
    \/ HwChange
    \/ \E i \in Caps, value, ok, kept \in BOOLEAN :
          CapabilityListener(i, value, ok, kept)

SpecLive ==
    /\ InitLive
    /\ [][NextLive]_vars
    /\ WF_vars(OnInitStep)
    /\ WF_vars(Tick)
    /\ \A p \in Slots : WF_vars(PassStep(p))

(***************************************************************************)
(* The polling device at an appliance whose snapshot carries ids that are  *)
(* not those of its zones.                                                 *)
(***************************************************************************)
InitOdd ==
    InitDevice([model : {"3S-2Z"}, ip : {TRUE}],
               {FreshMirror({1, 2})},
               {HwOdd},
               {"undefined"})

SpecOdd == InitOdd /\ [][Next]_vars

(***************************************************************************)
(* The device and its settings: a three-zone device whose first zone is   *)
(* disabled at the appliance starts with its first pass, and the user      *)
(* changes settings.                                                       *)
(***************************************************************************)
InitSettings ==
    InitDevice([model : {"3S-3Z"}, ip : {TRUE}],
               {FreshMirror({3})},
               {HwThree},
               {"undefined"})

NextSettings ==
    \/ OnInitStep
    \/ \E p \in Slots : PassStep(p)
    \/ \E changedKeys \in ChangedKeys : OnSettings(changedKeys)
    \/ \E ok \in BOOLEAN : OnSettingsStep(ok)

SpecSettings == InitSettings /\ [][NextSettings]_vars

(***************************************************************************)
(* The AudioflowClient called on its own: each call is logged with its     *)
(* arguments, the requests it has sent and the error it has thrown.        *)
(***************************************************************************)
\* a name of 21 characters, and its prefixes of 15 and of 16 characters
LongName ==
    <<"L", "i", "v", "i", "n", "g", " ", "R", "o", "o", "m", " ",
      "L", "o", "n", "g", " ", "N", "a", "m", "e">>
ClientNames == {NoName, Den, SubSeq(LongName, 1, 15), SubSeq(LongName, 1, 16), LongName}

\* arguments of setExclusiveMode: the two tokens, and others
ClientModes == {"enable", "disable", "Enable", "on", ""}

\* new Error('Mode must be "enable" or "disable"')
InvalidMode == "Mode must be enable or disable"

\* reject(new Error(`HTTP request failed: ...`)) / reject(new Error('Request timeout'))
TransportError == "HTTP request failed"

Arguments(n, name, enabled, mode) ==
    [n |-> n, name |-> name, enabled |-> enabled, mode |-> mode]

\* setZoneState(homeyZoneNum, state), with the outcome of the request
SetZoneState(homeyZoneNum, state, ok) ==
    [method |-> "setZoneState",
     args |-> Arguments(homeyZoneNum, NoName, state, ""),
     sent |-> <<SetZoneStateCall(homeyZoneNum, state)>>,
     error |-> IF ok THEN "none" ELSE TransportError]

\* setZoneName(zoneNumber, name, enabled), with the outcome of the request
SetZoneName(zoneNumber, name, enabled, ok) ==
    [method |-> "setZoneName",
     args |-> Arguments(zoneNumber, name, enabled, ""),
     sent |-> <<SetZoneNameCall(zoneNumber, name, enabled)>>,
     error |-> IF ok THEN "none" ELSE TransportError]

\* a variant of setExclusiveMode without the check of its argument
SetExclusiveModeUnchecked(mode, ok) ==
    [method |-> "setExclusiveMode",
     args |-> Arguments(0, NoName, FALSE, mode),
     sent |-> <<SetExclusiveModeCall(mode)>>,
     error |-> IF ok THEN "none" ELSE TransportError]

\* setExclusiveMode(mode), with the outcome of the request if one is sent
SetExclusiveMode(mode, ok) ==
    IF mode # "enable" /\ mode # "disable"
    THEN [method |-> "setExclusiveMode",
          args |-> Arguments(0, NoName, FALSE, mode),
          sent |-> <<>>,
          error |-> InvalidMode]
    ELSE [method |-> "setExclusiveMode",
          args |-> Arguments(0, NoName, FALSE, mode),
          sent |-> <<SetExclusiveModeCall(mode)>>,
          error |-> IF ok THEN "none" ELSE TransportError]

\* the call is made: its requests reach the appliance, which serves those
\* that do not fail
ClientCall(outcome) ==
    /\ Len(requests) < MaxRequests
    /\ requests' = Append(requests, outcome)
    /\ LET served == outcome.sent # <<>> /\ outcome.error = "none" IN
       /\ hw' = IF served THEN HwAnswer(hw, outcome.sent[1]) ELSE hw
       /\ hwExclusive' = IF served
                         THEN HwExclusiveAnswer(hwExclusive, outcome.sent[1])
                         ELSE hwExclusive
    /\ UNCHANGED <<lifeVars, opVars, sessVars, engineVars, hwChanges>>

ClientSetZoneState(n, state, ok) == ClientCall(SetZoneState(n, state, ok))

ClientSetZoneName(n, name, enabled, ok) ==
    ClientCall(SetZoneName(n, name, enabled, ok))

ClientSetExclusiveMode(mode, ok) == ClientCall(SetExclusiveMode(mode, ok))

\* a device that is constructed and not started, beside the client
InitIdle ==
    InitDevice([model : {"3S-4Z"}, ip : {TRUE}],
               {FreshMirror(Caps)},
               {HwTwo},
               {"undefined"})

NextClient ==
    \/ \E n \in Caps, state, ok \in BOOLEAN : ClientSetZoneState(n, state, ok)
    \/ \E n \in Caps, name \in ClientNames, enabled, ok \in BOOLEAN :
          ClientSetZoneName(n, name, enabled, ok)
    \/ \E mode \in ClientModes, ok \in BOOLEAN : ClientSetExclusiveMode(mode, ok)

SpecClient == InitIdle /\ [][NextClient]_vars

(***************************************************************************)
(* The discovery datagram and its parsing (_handleDiscoveryMessage).  A    *)
(* buffer is a sequence of characters; NUL stands for the byte 0.          *)
(***************************************************************************)
NUL == "NUL"
Whitespace == {" ", "\t"}

\* msg.slice(start, end).toString()
Slice(msg, start, end) == SubSeq(msg, start + 1, Min(end, Len(msg)))

\* .replace(/\0/g, '')
StripNul(s) == SelectSeq(s, LAMBDA c : c # NUL)

\* .trim()
RECURSIVE TrimStart(_)
TrimStart(s) ==
    IF s # <<>> /\ Head(s) \in Whitespace THEN TrimStart(Tail(s)) ELSE s

RECURSIVE TrimEnd(_)
TrimEnd(s) ==
    IF s # <<>> /\ s[Len(s)] \in Whitespace
    THEN TrimEnd(SubSeq(s, 1, Len(s) - 1))
    ELSE s

Trim(s) == TrimEnd(TrimStart(s))

Afpong == <<"a", "f", "p", "o", "n", "g">>
Afping == <<"a", "f", "p", "i", "n", "g">>

\* a variant that validates the first three bytes only
ParseMagicLoose(msg) ==
    IF Slice(msg, 0, 3) = <<"a", "f", "p">> THEN Afpong ELSE Slice(msg, 0, 6)

\* 1. Validate Magic Number "afpong"
ParseMagic(msg) == Slice(msg, 0, 6)

\* 2. Parse Model (8 bytes)
ParseModel(msg) == Trim(StripNul(Slice(msg, 6, 14)))

\* 3. Parse Serial (16 bytes)
ParseSerial(msg) == Trim(StripNul(Slice(msg, 14, 30)))

\* rinfo.address.replace(/\./g, '_')
ReplaceDots(address) ==
    [k \in 1..Len(address) |-> IF address[k] = "." THEN "_" ELSE address[k]]

\* serial || `AF_${rinfo.address}`
DeviceIdKeepsDots(serial, address) ==
    IF serial # <<>> THEN serial ELSE <<"A", "F", "_">> \o address

\* serial || `AF_${...}`
DeviceId(serial, address) ==
    IF serial # <<>> THEN serial ELSE <<"A", "F", "_">> \o ReplaceDots(address)

\* the descriptor stored under foundDevices[deviceId]
Descriptor(msg, rinfo) ==
    [name |-> <<"A", "u", "d", "i", "o", "f", "l", "o", "w", " ">>
                 \o ParseModel(msg),
     data |-> [id |-> DeviceId(ParseSerial(msg), rinfo.address)],
     settings |-> [ip_address |-> rinfo.address],
     store |-> [model |-> ParseModel(msg), serial |-> ParseSerial(msg)]]

\* foundDevices[deviceId] is set (for an identifier that names no property of
\* Object.prototype)
HasDevice(found, deviceId) ==
    \E k \in 1..Len(found) : found[k].data.id = deviceId

\* _handleDiscoveryMessage without the test of foundDevices[deviceId]
HandleDiscoveryMessageOverwrites(found, msg, rinfo) ==
    IF ParseMagic(msg) # Afpong THEN found
    ELSE IF HasDevice(found, DeviceId(ParseSerial(msg), rinfo.address))
    THEN [k \in 1..Len(found) |->
            IF found[k].data.id = DeviceId(ParseSerial(msg), rinfo.address)
            THEN Descriptor(msg, rinfo)
            ELSE found[k]]
    ELSE Append(found, Descriptor(msg, rinfo))

\* _handleDiscoveryMessage(msg, rinfo, foundDevices)
HandleDiscoveryMessage(found, msg, rinfo) ==
    IF ParseMagic(msg) # Afpong THEN found
    ELSE IF HasDevice(found, DeviceId(ParseSerial(msg), rinfo.address))
    THEN found
    ELSE Append(found, Descriptor(msg, rinfo))

(***************************************************************************)
(* The datagrams and senders of the model.                                 *)
(***************************************************************************)
\* a field of the datagram: the text, filled with NUL to the field's width
Pad(s, width) == s \o [k \in 1..(width - Len(s)) |-> NUL]

Datagram(magic, model, serial) == magic \o Pad(model, 8) \o Pad(serial, 16)

ModelFour == <<"3", "S", "-", "4", "Z">>
ModelTwo == <<"3", "S", "-", "2", "Z">>
SerialOne == <<"A", "F", "1">>

\* two responses of one appliance that differ in model and in the padding of
\* the serial, a response without serial, and a datagram that is no response
Datagrams ==
    {Datagram(Afpong, ModelFour, SerialOne),
     Datagram(Afpong, ModelTwo, <<" ">> \o SerialOne \o <<" ">>),
     Datagram(Afpong, ModelTwo, NoName),
     Datagram(Afping, ModelFour, SerialOne)}

\* 192.168.1.50 and 10.0.0.7
AddressFifty == <<"1", "9", "2", ".", "1", "6", "8", ".", "1", ".", "5", "0">>
AddressSeven == <<"1", "0", ".", "0", ".", "0", ".", "7">>
Senders == {[address |-> AddressFifty], [address |-> AddressSeven]}

(***************************************************************************)
(* Discovery sessions of the driver (onPair, onRepair).  Every list_devices *)
(* invocation creates one socket, one promise and one timer: invocations[k] *)
(* holds the three.  discoverySocket is the session's closure variable: the *)
(* index of the socket it refers to, 0 for null.                           *)
(***************************************************************************)
outsideDriver == <<lifeVars, opVars, engineVars, hwVars, requests>>

\* new Promise(...) with dgram.createSocket('udp4') and setTimeout(...)
NewInvocation ==
    [socket |-> "binding", open |-> TRUE, pinged |-> FALSE, error |-> FALSE,
     promise |-> "pending", value |-> <<>>, resolves |-> 0, timer |-> "armed"]

\* resolve(value): a promise keeps the value of its first resolution
Resolve(inv, value) ==
    [inv EXCEPT !.resolves = @ + 1,
                !.promise = "resolved",
                !.value = IF inv.promise = "pending" THEN value ELSE @]

\* this.error(...) in a handler of the invocation's socket
LogErrorAndResolve(inv) == Resolve([inv EXCEPT !.error = TRUE], <<>>)

LogError(inv) == [inv EXCEPT !.error = TRUE]

\* try { discoverySocket.close(); } catch (e) {}
Close(invs, target) ==
    IF target = 0 THEN invs ELSE [invs EXCEPT ![target].open = FALSE]

\* discoverySocket.setBroadcast(true) does not throw
CanBroadcast(invs, target, broadcastOk) ==
    /\ target # 0
    /\ invs[target].open
    /\ invs[target].socket = "bound"
    /\ broadcastOk

\* onPair(session)
OnPair ==
    /\ session = "none"
    /\ session' = "pair"
    /\ discoverySocket' = 0
    /\ foundDevices' = <<>>
    /\ UNCHANGED <<sessionEnded, currentSerial, invocations, delivered,
                   outsideDriver>>

\* session.setHandler('list_devices', ...) of onPair, up to the return of the
\* promise
PairListDevices ==
    /\ session = "pair"
    /\ ~sessionEnded
    /\ Len(invocations) < MaxInvocations
    /\ invocations' = Append(invocations, NewInvocation)
    /\ discoverySocket' = Len(invocations) + 1
    /\ UNCHANGED <<session, sessionEnded, currentSerial, foundDevices,
                   delivered, outsideDriver>>

\* the bind of socket s completes: on failure the socket emits 'error', on
\* success the bind callback pings through the socket discoverySocket names
PairBound(invs, s, broadcastOk, sendOk) ==
    LET bound == [invs EXCEPT ![s].socket = "bound"]
    IN  IF ~CanBroadcast(bound, discoverySocket, broadcastOk)
        THEN [bound EXCEPT ![s] = LogError(@)]
        ELSE IF sendOk
        THEN [bound EXCEPT ![discoverySocket].pinged = TRUE]
        ELSE [bound EXCEPT ![s] = LogError(@)]

PairBind(s, bindOk, broadcastOk, sendOk) ==
    /\ session = "pair"
    /\ s \in 1..Len(invocations)
    /\ invocations[s].socket = "binding"
    /\ invocations[s].open
    /\ invocations' =
         IF bindOk
         THEN PairBound(invocations, s, broadcastOk, sendOk)
         ELSE [invocations EXCEPT ![s] = LogError([@ EXCEPT !.socket = "failed"])]
    /\ UNCHANGED <<session, sessionEnded, currentSerial, discoverySocket,
                   foundDevices, delivered, outsideDriver>>

\* a socket that has pinged can receive
Receives(s) ==
    /\ s \in 1..Len(invocations)
    /\ invocations[s].open
    /\ invocations[s].socket = "bound"
    /\ invocations[s].pinged
    /\ Len(delivered) < MaxMessages

\* discoverySocket.on('message', ...) of onPair
PairMessage(s, msg, rinfo) ==
    /\ session = "pair"
    /\ Receives(s)
    /\ delivered' = Append(delivered, [msg |-> msg, rinfo |-> rinfo])
    /\ foundDevices' = HandleDiscoveryMessage(foundDevices, msg, rinfo)
    /\ UNCHANGED <<session, sessionEnded, currentSerial, discoverySocket,
                   invocations, outsideDriver>>

\* discoverySocket.on('error', ...) of onPair, for an error of the running
\* socket
PairSocketError(s) ==
    /\ session = "pair"
    /\ s \in 1..Len(invocations)
    /\ invocations[s].open
    /\ invocations[s].socket = "bound"
    /\ ~invocations[s].error
    /\ invocations' = [invocations EXCEPT ![s] = LogError(@)]
    /\ UNCHANGED <<session, sessionEnded, currentSerial, discoverySocket,
                   foundDevices, delivered, outsideDriver>>

\* setTimeout(() => { resolve(Object.values(foundDevices)); }, 3000)
PairTimeout(k) ==
    /\ session = "pair"
    /\ k \in 1..Len(invocations)
    /\ invocations[k].timer = "armed"
    /\ invocations' =
         [invocations EXCEPT
            ![k] = Resolve([@ EXCEPT !.timer = "fired"], foundDevices)]
    /\ UNCHANGED <<session, sessionEnded, currentSerial, discoverySocket,
                   foundDevices, delivered, outsideDriver>>

\* session.setHandler('disconnect', ...) of onPair
PairDisconnect ==
    /\ session = "pair"
    /\ ~sessionEnded
    /\ sessionEnded' = TRUE
    /\ invocations' = Close(invocations, discoverySocket)
    /\ UNCHANGED <<session, currentSerial, discoverySocket, foundDevices,
                   delivered, outsideDriver>>

NextPair ==
    \/ OnPair
    \/ PairListDevices
    \/ \E s \in 1..MaxInvocations, bindOk \in BOOLEAN, broadcastOk \in BOOLEAN,
          sendOk \in BOOLEAN : PairBind(s, bindOk, broadcastOk, sendOk)
    \/ \E s \in 1..MaxInvocations, msg \in Datagrams, rinfo \in Senders :
          PairMessage(s, msg, rinfo)
    \/ \E s \in 1..MaxInvocations : PairSocketError(s)
    \/ \E k \in 1..MaxInvocations : PairTimeout(k)
    \/ PairDisconnect

SpecPair == InitIdle /\ [][NextPair]_vars

\* a timer that is armed fires
SpecPairLive ==
    SpecPair /\ \A k \in 1..MaxInvocations : WF_vars(PairTimeout(k))

(***************************************************************************)
(* The repair session (onRepair).  Its sockets have no 'error' listener: a  *)
(* failed bind and a failed send are uncaught errors, after which no        *)
(* callback of the session runs (session = "crashed").                     *)
(***************************************************************************)
\* device.getStoreValue('serial'): the serial stored at pairing, which is
\* empty for a device paired under its address
RepairSerials == {SerialOne, NoName}

\* the list a match resolves with
RepairResult(rinfo) ==
    <<[name |-> "getName", data |-> [id |-> "getData"],
       settings |-> [ip_address |-> rinfo.address]]>>

\* magic === 'afpong' and serial === currentSerial
Matches(msg) == ParseMagic(msg) = Afpong /\ ParseSerial(msg) = currentSerial

\* onRepair(session, device)
OnRepair(serial) ==
    /\ session = "none"
    /\ session' = "repair"
    /\ currentSerial' = serial
    /\ discoverySocket' = 0
    /\ UNCHANGED <<sessionEnded, foundDevices, invocations, delivered,
                   outsideDriver>>

\* session.setHandler('list_devices', ...) of onRepair, up to the return of
\* the promise
RepairListDevices ==
    /\ session = "repair"
    /\ ~sessionEnded
    /\ Len(invocations) < MaxInvocations
    /\ invocations' = Append(invocations, NewInvocation)
    /\ discoverySocket' = Len(invocations) + 1
    /\ UNCHANGED <<session, sessionEnded, currentSerial, foundDevices,
                   delivered, outsideDriver>>

\* the bind of socket s completes; the bind callback pings through the socket
\* discoverySocket names, and send has no callback
RepairBind(s, bindOk, broadcastOk, sendOk) ==
    /\ session = "repair"
    /\ s \in 1..Len(invocations)
    /\ invocations[s].socket = "binding"
    /\ invocations[s].open
    /\ LET bound == [invocations EXCEPT ![s].socket = "bound"]
       IN  IF ~bindOk
           THEN /\ invocations' = [invocations EXCEPT ![s].socket = "failed"]
                /\ session' = "crashed"
           ELSE IF ~CanBroadcast(bound, discoverySocket, broadcastOk)
           THEN /\ invocations' = [bound EXCEPT ![s] = LogError(@)]
                /\ session' = session
           ELSE IF sendOk
           THEN /\ invocations' = [bound EXCEPT ![discoverySocket].pinged = TRUE]
                /\ session' = session
           ELSE /\ invocations' = bound
                /\ session' = "crashed"
    /\ UNCHANGED <<sessionEnded, currentSerial, discoverySocket, foundDevices,
                   delivered, outsideDriver>>

\* discoverySocket.on('message', ...) of onRepair, on socket s
RepairMessage(s, msg, rinfo) ==
    /\ session = "repair"
    /\ Receives(s)
    /\ delivered' =
         Append(delivered, [msg |-> msg, rinfo |-> rinfo, socket |-> s])
    /\ IF Matches(msg)
       THEN /\ invocations' =
                 Close([invocations EXCEPT ![s] = Resolve(@, RepairResult(rinfo))],
                       discoverySocket)
            /\ discoverySocket' = 0
       ELSE UNCHANGED <<invocations, discoverySocket>>
    /\ UNCHANGED <<session, sessionEnded, currentSerial, foundDevices,
                   outsideDriver>>

\* setTimeout(() => { if (discoverySocket) {...} }, 5000) of invocation k
RepairTimeout(k) ==
    /\ session = "repair"
    /\ k \in 1..Len(invocations)
    /\ invocations[k].timer = "armed"
    /\ invocations' =
         IF discoverySocket # 0
         THEN [Close(invocations, discoverySocket) EXCEPT
                 ![k] = Resolve([@ EXCEPT !.timer = "fired"], <<>>)]
         ELSE [invocations EXCEPT ![k].timer = "fired"]
    /\ UNCHANGED <<session, sessionEnded, currentSerial, discoverySocket,
                   foundDevices, delivered, outsideDriver>>

\* session.setHandler('disconnect', ...) of onRepair
RepairDisconnect ==
    /\ session = "repair"
    /\ ~sessionEnded
    /\ sessionEnded' = TRUE
    /\ invocations' = Close(invocations, discoverySocket)
    /\ UNCHANGED <<session, currentSerial, discoverySocket, foundDevices,
                   delivered, outsideDriver>>

NextRepair ==
    \/ \E serial \in RepairSerials : OnRepair(serial)
    \/ RepairListDevices
    \/ \E s \in 1..MaxInvocations, bindOk \in BOOLEAN, broadcastOk \in BOOLEAN,
          sendOk \in BOOLEAN : RepairBind(s, bindOk, broadcastOk, sendOk)
    \/ \E s \in 1..MaxInvocations, msg \in Datagrams, rinfo \in Senders :
          RepairMessage(s, msg, rinfo)
    \/ \E k \in 1..MaxInvocations : RepairTimeout(k)
    \/ RepairDisconnect

SpecRepair == InitIdle /\ [][NextRepair]_vars

\* the driver: a session is a pairing or a repair session
NextDriver == NextPair \/ NextRepair

SpecDriver == InitIdle /\ [][NextDriver]_vars

(***************************************************************************)
(* A whole pass as a function: the zone loop and the exclusive-mode sync   *)
(* applied to a mirror m, for a snapshot and switch metadata that were     *)
(* fetched and with every platform call succeeding.                        *)
(***************************************************************************)
\* one iteration of the zone loop, for a device with zc zones
Iteration(m, e, zc) ==
    IF ZoneNum(e) > zc THEN [mirror |-> m, events |-> <<>>]
    ELSE IF MustHide(m, e)
    THEN [mirror |-> RemoveCapability(m, ZoneNum(e)), events |-> <<>>]
    ELSE LET m0 == IF MustShow(m, e) THEN AddCapability(m, ZoneNum(e)) ELSE m
             m1 == SyncState(m0, e, TRUE)
             m2 == SyncName(m1, e, TRUE)
         IN  [mirror |-> SyncCheckbox(m2, e, TRUE), events |-> SyncEvents(m0, e)]

RECURSIVE ZoneLoop(_, _, _)
ZoneLoop(m, zones, zc) ==
    IF zones = <<>> THEN [mirror |-> m, events |-> <<>>]
    ELSE LET first == Iteration(m, Head(zones), zc)
             rest == ZoneLoop(first.mirror, Tail(zones), zc)
         IN  [mirror |-> rest.mirror, events |-> first.events \o rest.events]

RunPass(m, zones, sw, zc) ==
    LET loop == ZoneLoop(m, zones, zc)
    IN  [mirror |-> SyncExclusive(loop.mirror, sw, TRUE), events |-> loop.events]

(***************************************************************************)
(* What a step of the model is, for the claims.                            *)
(***************************************************************************)
\* the step is a step of the invocation in slot p
StepOf(p) == pass[p].pc # "idle" /\ pass'[p] # pass[p]

\* the invocation in slot p returns normally in this step
Completes(p) == pass[p].pc = "finish" /\ pass'[p].pc = "idle"

\* the invocation in slot p ends in its catch block in this step
Aborts(p) == pass[p].pc \notin {"idle", "finish"} /\ pass'[p].pc = "idle"

\* the invocation in slot p begins in this step
Begins(p) == pass[p].pc = "idle" /\ pass'[p].pc # "idle"

(***************************************************************************)
(* C1.  Running a pass twice in succession against the same zone snapshot  *)
(* and switch metadata, from any mirror: the second pass emits no          *)
(* zone_turned_on / zone_turned_off event and leaves the mirror as the     *)
(* first pass left it.                                                     *)
(***************************************************************************)
C1_SecondPassIsNoOp ==
    Initialised =>
        LET once == RunPass(mirror, Snapshot(hw), hwExclusive, zoneCount)
            twice == RunPass(once.mirror, Snapshot(hw), hwExclusive, zoneCount)
        IN  twice.events = <<>> /\ twice.mirror = once.mirror

(***************************************************************************)
(* C2.  After every pass that completes, every zone 1..zoneCount is        *)
(* visible (has its zone_btn_N capability) exactly if its enabled_zoneN    *)
(* setting is true.                                                        *)
(***************************************************************************)
VisibleIffEnabled(m) ==
    \A n \in 1..zoneCount : HasCapability(m, n) <=> m.enabled[n]

C2_VisibleIffEnabledAfterPass ==
    [][\A p \in Slots : Completes(p) => VisibleIffEnabled(mirror')]_vars

(***************************************************************************)
(* C3.  A pass emits an event for a zone exactly if the zone is visible    *)
(* after the visibility step and the snapshot's on value differs from the  *)
(* mirror's on value before the pass; then it emits exactly one event,     *)
(* zone_turned_on for on and zone_turned_off for off.                      *)
(***************************************************************************)
\* the step in which slot p runs the state sync of its current entry, or
\* hides or skips the entry
EndsVisibilityStep(p) ==
    /\ StepOf(p)
    /\ \/ pass[p].pc = "sync"
       \/ pass[p].pc = "zone" /\ pass'[p].pc \notin {"sync", "idle"}

C3_EventIffOnDiffersFromBeforePass ==
    [][\A p \in Slots :
         /\ StepOf(p) /\ ~EndsVisibilityStep(p) => emitted' = <<>>
         /\ EndsVisibilityStep(p) =>
              LET e == Head(pass[p].todo)
                  n == ZoneNum(e)
              IN  IF /\ n <= zoneCount
                     /\ HasCapability(mirror', n)
                     /\ pass[p].before.value[n] # JsBool(IsCurrentlyOn(e))
                  THEN emitted' = <<TriggerFor(e)>>
                  ELSE emitted' = <<>>]_vars

(***************************************************************************)
(* C4.  At most one pass of a device is in flight at any time.             *)
(***************************************************************************)
C4_AtMostOnePassInFlight == Cardinality(InFlight) <= 1

(***************************************************************************)
(* C5.  Whatever the interleaving of the user's zone writes and the poll   *)
(* ticks: once the appliance's zone states have stopped changing and the   *)
(* fetches succeed, the mirror's on value of every visible zone in         *)
(* 1..zoneCount comes to equal the state the appliance reports, and stays  *)
(* equal.                                                                  *)
(***************************************************************************)
MirrorMatchesHardware ==
    \A n \in 1..zoneCount :
        n <= Len(hw) /\ HasCapability(mirror, n)
           => mirror.value[n] = JsBool(hw[n].state = "on")

C5_MirrorConvergesToHardware ==
    <>[](initPc = "ready" /\ MirrorMatchesHardware)

\* the user has written a zone, a zone was switched at the appliance, a
\* fetch has failed, and the mirror shows a zone that is on as on
C5_Witness ==
    /\ initPc = "ready"
    /\ ops > 0
    /\ hwChanges > 0
    /\ logged = "getZones"
    /\ InFlight = {}
    /\ MirrorMatchesHardware
    /\ \E n \in 1..zoneCount : HasCapability(mirror, n) /\ mirror.value[n] = "true"

(***************************************************************************)
(* C6.  Once onDeleted has run the timer is cancelled and no pass is       *)
(* started afterwards, whenever in the lifecycle it runs; a pass in flight *)
(* at teardown is not aborted.                                             *)
(***************************************************************************)
C6_NoPassAfterTeardown ==
    [][/\ deleted' => ~pollingInterval'
       /\ deleted => \A p \in Slots : ~Begins(p)
       /\ ~deleted /\ deleted' => pass' = pass]_vars

(***************************************************************************)
(* C7.  If getZones fails the pass is aborted: the mirror is unchanged, no *)
(* event is emitted, the failure is logged and not raised, the timer keeps *)
(* running and the next tick can start a new pass.                         *)
(***************************************************************************)
\* the step in which the getZones call of slot p is answered by a failure
FetchFails(p) == pass[p].pc = "getZones" /\ pass'[p].pc # "getSwitch" /\ StepOf(p)

C7_FetchFailureAbortsPass ==
    [][\A p \in Slots : FetchFails(p) =>
         /\ mirror' = mirror
         /\ emitted' = <<>>
         /\ pass'[p] = IdlePass
         /\ logged' = "getZones"
         /\ ~raised'
         /\ pollingInterval' = pollingInterval
         /\ pollingInterval => TickEnabled']_vars

\* a pass has failed at getZones, the timer runs, and a pass started by a
\* later tick has fetched the zones
C7_Witness ==
    /\ logged = "getZones"
    /\ pollingInterval
    /\ \E p \in Slots : pass[p].pc = "getSwitch" /\ ~pass[p].eager

(***************************************************************************)
(* C8.  A pass that fails at any step is logged, never raised, and leaves  *)
(* the mirror as it was before that pass.                                  *)
(***************************************************************************)
C8_FailedPassLeavesMirror ==
    [][\A p \in Slots : Aborts(p) =>
         /\ logged' # "none"
         /\ ~raised'
         /\ mirror' = pass[p].before]_vars

(***************************************************************************)
(* C9.  A turn_zone_on or turn_zone_off flow action, or an enabled_zoneN   *)
(* settings change, whose zone number is not in 1..zoneCount fails with    *)
(* the invalid-zone error and issues no transport call for that zone.      *)
(***************************************************************************)
OutOfRange(zoneNum) == zoneNum \notin 1..zoneCount

\* the operation has issued no call that targets the zone
NoCallFor(o, zoneNum) == \A k \in 1..Len(o.calls) : o.calls[k].n # zoneNum

C9_OutOfRangeZoneRejected ==
    op.pc = "done" =>
      /\ op.kind \in {"turn_zone_on", "turn_zone_off"}
            /\ OutOfRange(ParseInt(op.zone))
         => op.result = InvalidZone /\ op.calls = <<>>
      /\ op.kind = "onSettings" =>
           \A k \in 1..Len(op.changed) :
              LET key == op.changed[k] IN
              key.prefix = "enabled_zone" /\ OutOfRange(ParseInt(key.suffix))
                 => op.result = InvalidZone /\ NoCallFor(op, ParseInt(key.suffix))

(***************************************************************************)
(* C10.  turn_all_zones_off issues exactly one off-write per zone          *)
(* 1..zoneCount, in index order, whichever of the writes fail, and         *)
(* completes returning true.                                               *)
(***************************************************************************)
\* the off-writes to the zones 1..n, in index order
OffWrites(n) == [k \in 1..n |-> SetZoneStateCall(k, FALSE)]

C10_AllZonesOffWritesEveryZone ==
    op.kind = "turn_all_zones_off" =>
      /\ op.pc = "run" => op.i <= zoneCount /\ op.calls = OffWrites(op.i)
      /\ op.pc = "done" =>
           /\ op.calls = OffWrites(zoneCount)
           /\ op.failed \subseteq 1..zoneCount
           /\ op.result = "true"

\* on a 4-zone device the write to zone 2 has failed, the others have not,
\* and the operation has completed
C10_Witness ==
    /\ op.kind = "turn_all_zones_off"
    /\ op.pc = "done"
    /\ zoneCount = 4
    /\ op.failed = {2}

(***************************************************************************)
(* C11.  setZoneName(n, name, enabled) sends one PUT to /zonename/n whose  *)
(* payload is one flag character, '1' if enabled and '0' otherwise,        *)
(* followed by the first min(15, length) characters of the name: at most   *)
(* 16 characters.                                                          *)
(***************************************************************************)
C11_NamePayloadIsFlagAndFifteen ==
    \A k \in 1..Len(requests) :
       LET r == requests[k] IN
       r.method = "setZoneName" =>
          /\ Len(r.sent) = 1
          /\ LET call == r.sent[1]
                 kept == IF Len(r.args.name) < 15 THEN Len(r.args.name) ELSE 15
             IN  /\ call.method = "PUT"
                 /\ call.path = "/zonename/"
                 /\ call.n = r.args.n
                 /\ Len(call.body) = 1 + kept
                 /\ Len(call.body) <= 16
                 /\ call.body[1] = (IF r.args.enabled THEN "1" ELSE "0")
                 /\ \A j \in 1..kept : call.body[j + 1] = r.args.name[j]

\* setZoneName(2, "Living Room Long Name", true) has sent "1Living Room Lon"
C11_Witness ==
    \E k \in 1..Len(requests) :
       /\ requests[k].method = "setZoneName"
       /\ requests[k].args = Arguments(2, LongName, TRUE, "")
       /\ requests[k].sent[1].body =
             <<"1", "L", "i", "v", "i", "n", "g", " ", "R", "o", "o", "m", " ",
               "L", "o", "n">>

(***************************************************************************)
(* C12.  setExclusiveMode sends a request only if its argument is exactly  *)
(* 'enable' or 'disable'; for any other argument it throws the             *)
(* invalid-argument error and sends nothing.                               *)
(***************************************************************************)
C12_ExclusiveModeChecksArgument ==
    \A k \in 1..Len(requests) :
       LET r == requests[k] IN
       r.method = "setExclusiveMode" =>
          IF r.args.mode \in {"enable", "disable"}
          THEN /\ r.sent = <<Put("/exclusive", 0, <<r.args.mode>>)>>
               /\ r.error # InvalidMode
          ELSE /\ r.sent = <<>>
               /\ r.error = InvalidMode

\* 'Enable' was refused without a request, and 'enable' was sent
C12_Witness ==
    /\ \E k \in 1..Len(requests) :
          /\ requests[k].method = "setExclusiveMode"
          /\ requests[k].args.mode = "Enable"
          /\ requests[k].sent = <<>>
    /\ \E k \in 1..Len(requests) :
          /\ requests[k].method = "setExclusiveMode"
          /\ requests[k].args.mode = "enable"
          /\ requests[k].sent # <<>>

(***************************************************************************)
(* C19.  A settings change whose hardware write fails makes onSettings     *)
(* fail with an error to its caller; onSettings resolves only if the       *)
(* write of every changed enabled_zoneN key of an in-range zone and of     *)
(* exclusive_mode has succeeded.                                           *)
(***************************************************************************)
\* the operation has issued the write of the key
Written(o, key) ==
    \E k \in 1..Len(o.calls) :
       IF key.prefix = "enabled_zone"
       THEN o.calls[k].path = "/zonename/" /\ o.calls[k].n = ParseInt(key.suffix)
       ELSE o.calls[k].path = "/exclusive"

C19_SettingsFailIfWriteFails ==
    op.kind = "onSettings" /\ op.pc = "done" =>
       /\ op.failed # {} =>
            op.result \in {"Hardware update failed", "Failed to set exclusive mode"}
       /\ op.result = "resolved" =>
            /\ op.failed = {}
            /\ \A k \in 1..Len(op.changed) :
                  MakesCall(op.changed[k]) => Written(op, op.changed[k])

\* the first write of a settings change was served, the second has failed,
\* and onSettings has thrown
C19_Witness ==
    /\ op.kind = "onSettings"
    /\ op.pc = "done"
    /\ op.failed = {2}
    /\ op.result # "resolved"

(***************************************************************************)
(* C20.  No dispatcher operation changes the visibility or the display     *)
(* name of a zone, and the flow actions and the settings writes change no  *)
(* on value; the on value of a zone changes outside a pass only when the   *)
(* platform keeps the value the user has set through that zone's           *)
(* capability listener.                                                    *)
(***************************************************************************)
\* the step is a step of a dispatcher operation
DispatcherStep == ops' # ops \/ op' # op

\* the step is the capability listener of one visible zone, whose value the
\* platform keeps
KeepsToggledValue ==
    /\ ops' = ops + 1
    /\ op' = op
    /\ \E i \in 1..zoneCount :
          /\ HasCapability(mirror, i)
          /\ \E value \in BOOLEAN :
                mirror'.value = [mirror.value EXCEPT ![i] = JsBool(value)]

IsResponse(r) == SubSeq(r.msg, 1, 6) = Afpong

\* the identifier the driver gives the sender of a response
IdOf(r) == Descriptor(r.msg, r.rinfo).data.id

\* delivered[n] is the first response of the session with its identifier
FirstOfItsId(n) ==
    /\ IsResponse(delivered[n])
    /\ \A j \in 1..(n - 1) :
          ~(IsResponse(delivered[j]) /\ IdOf(delivered[j]) = IdOf(delivered[n]))

\* C13: in a pairing session the found-device set holds at most one
\* descriptor per identifier, and the descriptor is the one built from the
\* first response delivered with that identifier, whatever later responses
\* with the identifier carry.
C13_OneDescriptorPerId ==
    session = "pair" =>
      /\ \A j, k \in 1..Len(foundDevices) :
            j # k => foundDevices[j].data.id # foundDevices[k].data.id
      /\ \A k \in 1..Len(foundDevices) :
            \E n \in 1..Len(delivered) :
               /\ FirstOfItsId(n)
               /\ foundDevices[k] = Descriptor(delivered[n].msg, delivered[n].rinfo)

\* two responses with one identifier and different contents were delivered
C13_Witness ==
    /\ session = "pair"
    /\ Len(foundDevices) = 1
    /\ \E j, k \in 1..Len(delivered) :
          /\ j < k
          /\ IsResponse(delivered[j]) /\ IsResponse(delivered[k])
          /\ IdOf(delivered[j]) = IdOf(delivered[k])
          /\ Descriptor(delivered[j].msg, delivered[j].rinfo)
               # Descriptor(delivered[k].msg, delivered[k].rinfo)

\* s is t without the whitespace at its two ends
IsTrimOf(s, t) ==
    \E a \in 0..Len(t) : \E b \in a..Len(t) :
       /\ s = SubSeq(t, a + 1, b)
       /\ \A k \in 1..a : t[k] \in Whitespace
       /\ \A k \in (b + 1)..Len(t) : t[k] \in Whitespace
       /\ s # <<>> => (s[1] \notin Whitespace /\ s[Len(s)] \notin Whitespace)

\* id is AF_ followed by the address, character by character, with an
\* underscore for every dot
IsAddressId(id, address) ==
    /\ Len(id) = Len(address) + 3
    /\ SubSeq(id, 1, 3) = <<"A", "F", "_">>
    /\ \A k \in 1..Len(address) :
          /\ address[k] = "." => id[k + 3] = "_"
          /\ address[k] # "." => id[k + 3] = address[k]

\* the identifier is the one the serial field and the address determine
IsIdFor(id, msg, address) ==
    LET field == SelectSeq(SubSeq(msg, 15, 30), LAMBDA c : c # NUL)
    IN  \E a \in 0..Len(field) : \E b \in a..Len(field) :
           LET serial == SubSeq(field, a + 1, b)
           IN  /\ IsTrimOf(serial, field)
               /\ serial # <<>> => id = serial
               /\ serial = <<>> => IsAddressId(id, address)

Settles(k) ==
    /\ k \in 1..Len(invocations)
    /\ invocations[k].promise = "pending"
    /\ invocations'[k].promise = "resolved"

\* what a step of a pairing session may do to the promise of an invocation
WindowStep ==
    \A k \in 1..Len(invocations') :
       /\ invocations'[k].resolves <= 1
       /\ invocations'[k].promise = "resolved" <=> invocations'[k].timer = "fired"
       /\ Settles(k) => invocations'[k].value = foundDevices
       /\ (k \in 1..Len(invocations) /\ invocations[k].promise = "resolved")
             => invocations'[k].value = invocations[k].value

\* C18: the promise of a pairing list_devices invocation is resolved once, by
\* the 3-second timer and by nothing else, with the found-device list of that
\* moment; a socket error and a failure of bind, setBroadcast or send leave it
\* pending until the timer fires, and the timer does fire.
C18_PairingResolvesAtEndOfWindow ==
    /\ [][session' = "pair" => WindowStep]_vars
    /\ \A k \in 1..MaxInvocations :
          [](Len(invocations) >= k =>
                <>(Len(invocations) >= k /\ invocations[k].promise = "resolved"))

\* a window that ended with a descriptor in its list although its socket
\* reported an error, and one that ended empty after a failed bind
C18_Witness ==
    /\ session = "pair"
    /\ Len(invocations) = 2
    /\ invocations[1].promise = "resolved" /\ invocations[1].resolves = 1
    /\ invocations[1].error /\ invocations[1].value # <<>>
    /\ invocations[2].promise = "resolved" /\ invocations[2].resolves = 1
    /\ invocations[2].socket = "failed"

(***************************************************************************)
(* Discovery: the result and the sockets of a session.                     *)
(***************************************************************************)
\* the step delivers a datagram to socket s
Delivers(s) ==
    /\ Len(delivered') = Len(delivered) + 1
    /\ delivered'[Len(delivered')].socket = s

\* the datagram the step delivers answers the ping of the device under repair
DeliversMatch(s) ==
    /\ Delivers(s)
    /\ IsResponse(delivered'[Len(delivered')])
    /\ Descriptor(delivered'[Len(delivered')].msg,
                  delivered'[Len(delivered')].rinfo).store.serial = currentSerial

\* the timer of invocation k fires in the step
Fires(k) ==
    /\ k \in 1..Len(invocations)
    /\ invocations[k].timer = "armed"
    /\ invocations'[k].timer = "fired"

\* C15: in a repair session a matching response resolves the pending result
\* of the invocation whose socket received it with the responder's address
\* and closes that socket in the same step; the timer of an invocation whose
\* result is pending resolves it with the empty list; a datagram that does
\* not match resolves nothing.
C15_RepairResolvesOnMatchOrTimeout ==
    [][session = "repair" =>
         \A k \in 1..Len(invocations) :
            /\ (DeliversMatch(k) /\ invocations[k].promise = "pending") =>
                  /\ invocations'[k].promise = "resolved"
                  /\ invocations'[k].value =
                       RepairResult(delivered'[Len(delivered')].rinfo)
                  /\ ~invocations'[k].open
            /\ (Fires(k) /\ invocations[k].promise = "pending") =>
                  /\ invocations'[k].promise = "resolved"
                  /\ invocations'[k].value = <<>>
            /\ (Delivers(k) /\ ~DeliversMatch(k)) =>
                  \A j \in 1..Len(invocations) :
                     invocations'[j].resolves = invocations[j].resolves]_vars

C17_DisconnectClosesEverySocket ==
    [][/\ sessionEnded' => \A k \in 1..Len(invocations') : ~invocations'[k].open
       /\ sessionEnded => foundDevices' = foundDevices]_vars

(***************************************************************************)
(* The zone loop: entries beyond the zone count.                           *)
(***************************************************************************)
\* the step is the iteration of slot p for an entry above the zone count
SkipsEntry(p) ==
    /\ pass[p].pc = "zone"
    /\ StepOf(p)
    /\ Head(pass[p].todo).id + 1 > zoneCount

\* C21: the iteration for a snapshot entry whose zone number (id + 1) is
\* above the zone count changes nothing in the mirror, emits no event, fails
\* nothing, and hands the rest of the snapshot and the switch metadata to the
\* following iterations as they are.
C21_EntryBeyondZoneCountIgnored ==
    [][\A p \in Slots :
          SkipsEntry(p) =>
             /\ mirror' = mirror
             /\ emitted' = <<>>
             /\ pass'[p].todo = Tail(pass[p].todo)
             /\ pass'[p].sw = pass[p].sw
             /\ pass'[p].pc = IF Tail(pass[p].todo) = <<>> THEN "finish" ELSE "zone"
             /\ <<raised', logged', faults'>> = <<raised, logged, faults>>]_vars

\* a two-zone device has gone through the three entries of its appliance
\* and holds nothing of the third
C21_Witness ==
    /\ zoneCount = 2
    /\ Len(hw) = 3 /\ hw[3].enabled = 1 /\ hw[3].state = "on"
    /\ \E p \in Slots : pass[p].pc = "finish"
    /\ mirror.caps \subseteq 1..2
    /\ mirror.value[3] = "null" /\ mirror.title[3] = NoName
    /\ faults = 0

(***************************************************************************)
(* The switch metadata of a pass.                                          *)
(***************************************************************************)
\* the getSwitch call of slot p is rejected in this step
SwitchFetchFails(p) ==
    /\ pass[p].pc = "getSwitch"
    /\ StepOf(p)
    /\ faults' = faults + 1

\* C22: a rejected getSwitch is not logged and not raised and changes no
\* mirror field; the invocation goes on to the zone loop with the whole
\* snapshot, as after a successful fetch, and holds no exclusive flag; and an
\* invocation that holds no exclusive flag never changes the exclusive-mode
\* setting.
C22_SwitchFailureSwallowed ==
    [][\A p \in Slots :
          /\ SwitchFetchFails(p) =>
                /\ pass'[p].pc = IF pass[p].todo = <<>> THEN "finish" ELSE "zone"
                /\ pass'[p].todo = pass[p].todo
                /\ pass'[p].sw = "undefined"
                /\ mirror' = mirror
                /\ <<raised', logged'>> = <<raised, logged>>
          /\ (StepOf(p) /\ pass[p].pc \notin {"getZones", "getSwitch"}
                /\ pass[p].sw = "undefined") =>
                mirror'.exclusive = mirror.exclusive]_vars

\* after a rejected getSwitch the zone loop has run and has stored the state
\* of zone 1; the invocation holds no exclusive flag although the appliance
\* has one
C22_Witness ==
    /\ hwExclusive = "true"
    /\ faults = 1 /\ logged = "none" /\ ~raised
    /\ \E p \in Slots : pass[p].pc = "finish" /\ pass[p].sw = "undefined"
    /\ mirror.value[1] # "null"
    /\ ~mirror.exclusive

(***************************************************************************)
(* Discovery: datagrams that are no response.                              *)
(***************************************************************************)
\* the step delivers a datagram that does not begin with afpong
DeliversOther ==
    /\ Len(delivered') = Len(delivered) + 1
    /\ ~IsResponse(delivered'[Len(delivered')])

\* C23: in a pairing and in a repair session the handling of a datagram that
\* does not begin with afpong changes nothing: not the found devices, not a
\* socket, promise or timer of the session (nothing is resolved, closed or
\* logged), not the session's socket variable.
C23_OtherDatagramIgnored ==
    [][DeliversOther =>
          /\ foundDevices' = foundDevices
          /\ invocations' = invocations
          /\ discoverySocket' = discoverySocket
          /\ <<session', sessionEnded', currentSerial'>>
               = <<session, sessionEnded, currentSerial>>]_vars

\* a repair session has received an afping datagram and then the response of
\* its device, which resolved it
C23_Witness ==
    /\ session = "repair"
    /\ Len(delivered) = 2
    /\ ~IsResponse(delivered[1])
    /\ IsResponse(delivered[2])
    /\ Len(invocations) = 1
    /\ invocations[1].promise = "resolved" /\ invocations[1].value # <<>>

(***************************************************************************)
(* The zone loop: the entry of a disabled zone.                            *)
(***************************************************************************)
\* the step belongs to the iteration of slot p for a zone of the device that
\* the snapshot reports disabled
DisabledEntryStep(p) ==
    /\ StepOf(p)
    /\ pass[p].pc \in {"zone", "sync", "checkbox"}
    /\ Head(pass[p].todo).enabled # 1
    /\ Head(pass[p].todo).id + 1 \in 1..zoneCount

\* what the step does to zone n when n is visible: the capability goes and
\* the loop moves on, or removeCapability is rejected and the pass ends
HidesOrEnds(p, n) ==
    IF faults' = faults
    THEN /\ mirror'.caps = mirror.caps \ {n}
         /\ pass'[p].todo = Tail(pass[p].todo)
         /\ pass'[p].pc = IF Tail(pass[p].todo) = <<>> THEN "finish" ELSE "zone"
    ELSE /\ mirror' = mirror
         /\ pass'[p].pc = "idle"
         /\ logged' = "removeCapability"

EntryOf(m, n) == <<n \in m.caps, m.value[n], m.title[n], m.enabled[n]>>

\* the step of slot p is a step of the zone loop
LoopStep(p) == StepOf(p) /\ pass[p].pc \in {"zone", "sync", "checkbox"}

\* C25: in a pass, what happens to a zone is a function of the mirror's entry
\* and the snapshot's entry for that zone: a step of the loop changes only
\* the entry of the zone it is visiting and fires only that zone's trigger,
\* and when the visit of one zone fails, each zone the snapshot lists after
\* it ends up as its own iteration would have left it, with the same events.
C25_ZonesProcessedIndependently ==
    [][\A p \in Slots : LoopStep(p) =>
          LET todo == pass[p].todo
              b == ZoneNum(Head(todo))
          IN  /\ \A n \in Caps \ {b} : EntryOf(mirror', n) = EntryOf(mirror, n)
              /\ \A i \in 1..Len(emitted') : emitted'[i].zone = Digit(b)
              /\ Aborts(p) =>
                    \A k \in 2..Len(todo) :
                       LET a == ZoneNum(todo[k])
                           alone == Iteration(mirror, todo[k], zoneCount)
                       IN  (a # b /\ a \in Caps) =>
                              /\ EntryOf(mirror', a) = EntryOf(alone.mirror, a)
                              /\ alone.events = <<>>]_vars

(***************************************************************************)
(* The settings change of a zone's enabled flag.                           *)
(***************************************************************************)
\* the name the appliance has for zone n, as a pass would display it
NameAtAppliance(n) == ZoneName(Snapshot(hw)[n])

\* onSettings awaits a setZoneName request for a zone of the appliance
AwaitsZoneName ==
    /\ op.kind = "onSettings"
    /\ op.pc = "run"
    /\ op.calls[Len(op.calls)].path = "/zonename/"
    /\ op.calls[Len(op.calls)].n \in 1..Len(hw)

\* C26: the name an enabled_zoneN change sends to the appliance is the name
\* the zone has there, whether the zone is visible or hidden.
C26_EnabledToggleKeepsName ==
    AwaitsZoneName =>
       LET call == op.calls[Len(op.calls)]
       IN  Tail(call.body) = Substring(NameAtAppliance(call.n), 0, 15)

(***************************************************************************)
(* Passes that overlap while the appliance changes.                        *)
(***************************************************************************)
\* the on value a pass stores for what the appliance holds now for zone n
ValueAtAppliance(n) == JsBool(hw[n].state = "on")

\* only passes have written values so far, and zone n is visible with the
\* value the appliance holds now.  The appliance changes a zone at most
\* once (MaxHwChanges), so if zone n has changed, this value was stored from
\* a snapshot fetched after the change.
IsCurrent(n) ==
    /\ ops = 0
    /\ n \in mirror.caps
    /\ mirror.value[n] = ValueAtAppliance(n)

\* C27: once a zone's on value has been stored from a snapshot, no step of
\* any pass overwrites it, or fires the zone's trigger, from a snapshot that
\* was fetched earlier: a zone that holds the appliance's present state is
\* not given another on value by a pass.
C27_NoRegressToOlderSnapshot ==
    [][\A p \in Slots : \A n \in 1..Len(hw) :
          (LoopStep(p) /\ IsCurrent(n) /\ hw' = hw)
             => /\ mirror'.value[n] \in {mirror.value[n], "null"}
                /\ \A i \in 1..Len(emitted') : emitted'[i].zone # Digit(n)]_vars

(***************************************************************************)
(* The visible zones and the zone count.                                   *)
(***************************************************************************)
\* onInit is past its cleanup loop
CleanedUp == initPc \in {"register", "eager", "ready"}

\* C28: once onInit's cleanup loop has run, the zones that are visible are
\* zones 1..zoneCount, whatever ids the snapshots carry.
C28_VisibleWithinZoneCount == CleanedUp => mirror.caps \subseteq 1..zoneCount

====
